---- MODULE Spec2Model ----
(***************************************************************************)
(* Progress store, quiz sessions, unlock policy and question supplier of  *)
(* the AI banking-risk training bot.                                       *)
(*                                                                         *)
(* Modelling conventions                                                   *)
(*  - A score is the exact rational correct/total*100, kept as a reduced   *)
(*    fraction [num, den]; the float comparisons of the code agree with    *)
(*    the rational ones for every total in 1..10 and an integer threshold. *)
(*  - A question is represented by its correct_answer index.               *)
(*  - Telegram updates are processed one at a time (main.py builds the     *)
(*    Application without concurrent_updates), so a handler is one step.   *)
(*  - SessionLocal is created with autoflush=False: a query issued inside  *)
(*    a transaction reads the committed rows, not the pending attribute    *)
(*    changes of that transaction.                                         *)
(*  - ORM objects returned by DatabaseService are read as snapshots of the *)
(*    row at the time of the call.                                         *)
(***************************************************************************)
EXTENDS Integers, Sequences, FiniteSets, TLC

(***************************************************************************)
(* Bounds                                                                  *)
(***************************************************************************)
NumLessons == 2
MaxSessions == 2
\* button presses that do not belong to the message shown last (a double
\* tap, or the keyboard of an older message)
MaxStray == 1

\* attempts recorded in all when the unlock policy is explored
MaxAttempts == 4

\* valid items in one response of the LLM
MaxGenerated == 11

(***************************************************************************)
(* Program constants                                                       *)
(***************************************************************************)
min_score_to_pass == 67
questions_per_lesson == 3

Users == {"u1"}

TOPIC_ORDER == <<"osnovy_riskov", "kritichnost_processov", "ocenka_riskov">>

TopicIds == {TOPIC_ORDER[i] : i \in 1..Len(TOPIC_ORDER)}

\* config/bot_config.py is not part of the sources: topic -> number of lessons,
\* lessons numbered 1..n in order.
LEARNING_STRUCTURE == [t \in TopicIds |-> NumLessons]

LessonIds(t) == 1..LEARNING_STRUCTURE[t]

Keys == {<<u, t, l>> : u \in Users, t \in TopicIds, l \in 1..NumLessons}

None == 0

(***************************************************************************)
(* Arithmetic on scores                                                    *)
(***************************************************************************)
RECURSIVE GCD(_, _)
GCD(a, b) == IF b = 0 THEN a ELSE GCD(b, a % b)

Frac(n, d) == LET g == GCD(n, d) IN [num |-> n \div g, den |-> d \div g]

Zero == [num |-> 0, den |-> 1]

FracLE(a, b) == a.num * b.den <= b.num * a.den

FracLT(a, b) == a.num * b.den < b.num * a.den

FracOfInt(i) == [num |-> i, den |-> 1]

\* Python round(): nearest integer, ties to the even neighbour.
Round(x) ==
    LET fl == x.num \div x.den
        twiceRem == 2 * (x.num % x.den)
    IN  IF twiceRem < x.den THEN fl
        ELSE IF twiceRem > x.den THEN fl + 1
        ELSE IF fl % 2 = 0 THEN fl ELSE fl + 1

RECURSIVE SumNum(_, _)
\* sum over a set of keys of f[k] as a fraction
SumNum(f, S) ==
    IF S = {} THEN Zero
    ELSE LET k == CHOOSE x \in S : TRUE
             r == SumNum(f, S \ {k})
         IN  Frac(f[k].num * r.den + r.num * f[k].den, f[k].den * r.den)

Max(S) == CHOOSE x \in S : \A y \in S : y <= x

(***************************************************************************)
(* State                                                                   *)
(***************************************************************************)
VARIABLES
    users,            \* user_progress table: user_id -> row
    lesson_progress,  \* lesson_progress table: <<user, topic, lesson>> -> row
    quiz_sessions,    \* quiz_sessions table: id -> row
    user_data,        \* context.user_data of each chat: quiz keys only
    reply,            \* what the last handler showed to its user, and the
                      \* number of sessions its create_quiz_session deleted
    stray,            \* stray button presses delivered so far
    menu,             \* what the unlock policy returned last
    gen               \* a question request and the list returned for it

vars == <<users, lesson_progress, quiz_sessions, user_data, reply, stray, menu, gen>>

NoMenu == [kind |-> "none"]
NoGen == [kind |-> "none"]

\* kind: what was shown; handler: the handler that showed it
MkReply(kind, handler, u, sid, sc, p) ==
    [kind |-> kind, handler |-> handler, user |-> u, session |-> sid,
     score |-> sc, passed |-> p, discarded |-> 0]

NoReply == MkReply("none", "", "", None, Zero, FALSE)

ErrorReply(handler, u) == MkReply("error", handler, u, None, Zero, FALSE)

QuestionReply(handler, u, sid) == MkReply("question", handler, u, sid, Zero, FALSE)

AnswerReply(u, sid, ok) == MkReply("answer", "handle_quiz_answer", u, sid, Zero, ok)

ResultReply(u, sid, sc, p) == MkReply("result", "handle_next_question", u, sid, sc, p)

\* start_quiz: "the questions could not be generated, try later"
GenerationFailedReply(u) ==
    MkReply("generation_failed", "start_quiz", u, None, Zero, FALSE)

ResetReply(u) == MkReply("reset", "confirm_reset_progress", u, None, Zero, FALSE)

NoQuizContext == [quiz_session_id |-> None, quiz_correct_count |-> 0]

(***************************************************************************)
(* core/models.py defaults                                                 *)
(***************************************************************************)
NewUserProgress ==
    [total_lessons_completed |-> 0, total_score |-> Zero,
     current_topic |-> TOPIC_ORDER[1], current_lesson |-> 1]

NewLessonProgress ==
    [is_completed |-> FALSE, attempts |-> 0, best_score |-> Zero,
     last_attempt_score |-> Zero]

NewQuizSession(u, t, l, qs) ==
    [user_id |-> u, topic_id |-> t, lesson_id |-> l, questions |-> qs,
     answers |-> <<>>, current_question |-> 0, is_completed |-> FALSE,
     score |-> Zero]

(***************************************************************************)
(* core/database.py                                                        *)
(***************************************************************************)
\* What a query issued in the middle of a transaction sees: the session
\* factory disables autoflush, so pending attribute changes are invisible.
QueryView(committed, pending) == committed

CompletedKeys(lp, u) ==
    {k \in DOMAIN lp : k[1] = u /\ lp[k].is_completed}

\* position of <<topic, lesson>> pairs in curriculum order
RECURSIVE FirstIncomplete(_, _, _, _)
FirstIncomplete(lp, u, ti, l) ==
    IF ti > Len(TOPIC_ORDER)
    THEN [topic |-> TOPIC_ORDER[Len(TOPIC_ORDER)], lesson |-> 7]
    ELSE IF l > LEARNING_STRUCTURE[TOPIC_ORDER[ti]]
    THEN FirstIncomplete(lp, u, ti + 1, 1)
    ELSE IF <<u, TOPIC_ORDER[ti], l>> \in CompletedKeys(lp, u)
    THEN FirstIncomplete(lp, u, ti, l + 1)
    ELSE [topic |-> TOPIC_ORDER[ti], lesson |-> l]

_find_next_available_position(lp, u) == FirstIncomplete(lp, u, 1, 1)

BestScores(lp) == [k \in DOMAIN lp |-> lp[k].best_score]

AvgBestScore(lp, S) ==
    LET s == SumNum(BestScores(lp), S)
    IN  Frac(s.num, s.den * Cardinality(S))

\* returns the new users table; lp is what the queries of the transaction see
_update_user_total_progress(lp, us, u) ==
    LET done == CompletedKeys(lp, u)
        completed_lessons_count == Cardinality(done)
        avg_score == IF done = {} THEN Zero ELSE AvgBestScore(lp, done)
        next_position == _find_next_available_position(lp, u)
    IN  IF u \in DOMAIN us
        THEN [us EXCEPT ![u] = [total_lessons_completed |-> completed_lessons_count,
                                total_score |-> avg_score,
                                current_topic |-> next_position.topic,
                                current_lesson |-> next_position.lesson]]
        ELSE us

\* the is_completed value written by one recorded attempt
\* variant: the flag is overwritten by the outcome of the attempt
CompletedOverwritten(was_completed, is_completed) ==
    is_completed

CompletedAfterAttempt(was_completed, is_completed) ==
    was_completed \/ is_completed

\* variant: the comparison is inverted
BestLowest(best_score, score) ==
    IF FracLT(score, best_score) THEN score ELSE best_score
\* variant: the best score is overwritten by the score of the attempt
BestOverwritten(best_score, score) ==
    score
BestAfterAttempt(best_score, score) ==
    IF FracLT(best_score, score) THEN score ELSE best_score

\* returns [lp, us, ok]
update_lesson_progress(lp, us, u, t, l, score, is_completed) ==
    LET k == <<u, t, l>> IN
    IF k \notin DOMAIN lp
    THEN [lp |-> lp, us |-> us, ok |-> FALSE]
    ELSE LET progress == lp[k]
             was_completed_before == progress.is_completed
             updated == [is_completed |-> CompletedAfterAttempt(progress.is_completed, is_completed),
                         attempts |-> progress.attempts + 1,
                         best_score |-> BestAfterAttempt(progress.best_score, score),
                         last_attempt_score |-> score]
             pending == [lp EXCEPT ![k] = updated]
         IN  [lp |-> pending,
              us |-> IF is_completed /\ ~was_completed_before
                     THEN _update_user_total_progress(QueryView(lp, pending), us, u)
                     ELSE us,
              ok |-> TRUE]

get_or_create_lesson_progress(lp, u, t, l) ==
    IF <<u, t, l>> \in DOMAIN lp THEN lp
    ELSE lp @@ (<<u, t, l>> :> NewLessonProgress)

Restrict(f, S) == [x \in S |-> f[x]]

\* SQLite INTEGER PRIMARY KEY: one more than the largest id in use
NextSessionId(qs) == IF DOMAIN qs = {} THEN 1 ELSE Max(DOMAIN qs) + 1

\* returns [qs, id]
\* variant: the prior incomplete sessions are left in the table
create_keeping_sessions(qs, u, t, l, questions) ==
    LET id == NextSessionId(qs)
    IN  [qs |-> qs @@ (id :> NewQuizSession(u, t, l, questions)), id |-> id,
         discarded |-> 0]
create_quiz_session(qs, u, t, l, questions) ==
    LET stale == {i \in DOMAIN qs : /\ qs[i].user_id = u
                                    /\ qs[i].topic_id = t
                                    /\ qs[i].lesson_id = l
                                    /\ ~qs[i].is_completed}
        kept == Restrict(qs, DOMAIN qs \ stale)
        id == NextSessionId(kept)
    IN  [qs |-> kept @@ (id :> NewQuizSession(u, t, l, questions)), id |-> id,
         discarded |-> Cardinality(stale)]

\* the rows .first() may return: no ORDER BY is given
\* variant: the lookup does not filter on is_completed
AnySessionIds(qs, u) ==
    {i \in DOMAIN qs : qs[i].user_id = u}

ActiveSessionIds(qs, u) ==
    {i \in DOMAIN qs : qs[i].user_id = u /\ ~qs[i].is_completed}

\* variant: the score is stored but the session is left open
score_quiz_session(qs, session_id, final_score) ==
    IF session_id \in DOMAIN qs
    THEN [qs EXCEPT ![session_id].score = final_score]
    ELSE qs

complete_quiz_session(qs, session_id, final_score) ==
    IF session_id \in DOMAIN qs
    THEN [qs EXCEPT ![session_id].is_completed = TRUE,
                    ![session_id].score = final_score]
    ELSE qs

\* variant: the rows and sessions are deleted without the filter on user_id
reset_all_users(lp, qs, us, u) ==
    [lp |-> <<>>,
     qs |-> <<>>,
     us |-> IF u \in DOMAIN us
            THEN [us EXCEPT ![u] = [total_lessons_completed |-> 0,
                                    total_score |-> Zero,
                                    current_topic |-> TOPIC_ORDER[1],
                                    current_lesson |-> 1]]
            ELSE us]
\* variant: the quiz sessions of the user are left in the table
reset_keeping_sessions(lp, qs, us, u) ==
    [lp |-> Restrict(lp, {k \in DOMAIN lp : k[1] # u}),
     qs |-> qs,
     us |-> IF u \in DOMAIN us
            THEN [us EXCEPT ![u] = [total_lessons_completed |-> 0,
                                    total_score |-> Zero,
                                    current_topic |-> TOPIC_ORDER[1],
                                    current_lesson |-> 1]]
            ELSE us]
reset_user_progress(lp, qs, us, u) ==
    [lp |-> Restrict(lp, {k \in DOMAIN lp : k[1] # u}),
     qs |-> Restrict(qs, {i \in DOMAIN qs : qs[i].user_id # u}),
     us |-> IF u \in DOMAIN us
            THEN [us EXCEPT ![u] = [total_lessons_completed |-> 0,
                                    total_score |-> Zero,
                                    current_topic |-> TOPIC_ORDER[1],
                                    current_lesson |-> 1]]
            ELSE us]

\* dict keys: the summary keys lessons by the integer lesson_id
IntKey(l) == <<"int", l>>

StrKey(l) == <<"str", l>>

\* topics_progress of get_user_progress_summary: topic -> entry, for the
\* topics that have at least one row
get_user_progress_summary(lp, us, u) ==
    LET rows(t) == {k \in DOMAIN lp : k[1] = u /\ k[2] = t}
        topics == {t \in TopicIds : rows(t) # {}}
        done(t) == {k \in rows(t) : lp[k].is_completed}
    IN  [total_lessons_completed |-> us[u].total_lessons_completed,
         total_score |-> us[u].total_score,
         current_topic |-> us[u].current_topic,
         current_lesson |-> us[u].current_lesson,
         topics_progress |->
            [t \in topics |->
                [completed_lessons |-> Cardinality(done(t)),
                 average_score |-> IF done(t) = {} THEN Zero
                                   ELSE AvgBestScore(lp, done(t)),
                 lessons |-> [key \in {IntKey(k[3]) : k \in rows(t)} |->
                                 lp[<<u, t, key[2]>>]]]]]

(***************************************************************************)
(* bot/handlers/quiz_handler.py                                            *)
(***************************************************************************)
\* question lists handed to start_quiz, each question given by its
\* correct_answer index
QuestionLists == {<<0, 0, 1>>, <<0, 0, 0, 0, 1>>, <<0, 0, 0, 1, 1>>}

\* the option the learner presses
AnswerIndexes == {0}

\* results of get_active_quiz_session
\* variant: with no incomplete session, the completed ones are returned
ActiveOrCompleted(qs, u) ==
    IF ActiveSessionIds(qs, u) # {} THEN ActiveSessionIds(qs, u)
    ELSE IF AnySessionIds(qs, u) = {} THEN {None} ELSE AnySessionIds(qs, u)
\* variant: the newest session of the user is taken, completed or not
LatestSession(qs, u) ==
    IF AnySessionIds(qs, u) = {} THEN {None} ELSE {Max(AnySessionIds(qs, u))}
GetActive(qs, u) ==
    IF ActiveSessionIds(qs, u) = {} THEN {None} ELSE ActiveSessionIds(qs, u)

QuizScore(correct_count, total_questions) ==
    IF total_questions > 0 THEN Frac(correct_count * 100, total_questions) ELSE Zero

Passed(score) == FracLE(FracOfInt(min_score_to_pass), score)

_check_topic_completion(lp, us, u, t) ==
    LET summary == get_user_progress_summary(lp, us, u) IN
    /\ t \in DOMAIN summary.topics_progress
    /\ summary.topics_progress[t].completed_lessons >= LEARNING_STRUCTURE[t]

TopicIndex(t) == CHOOSE i \in 1..Len(TOPIC_ORDER) : TOPIC_ORDER[i] = t

_update_user_current_position(us, u, t, l) ==
    IF l < LEARNING_STRUCTURE[t]
    THEN [us EXCEPT ![u].current_topic = t, ![u].current_lesson = l + 1]
    ELSE IF TopicIndex(t) + 1 <= Len(TOPIC_ORDER)
    THEN [us EXCEPT ![u].current_topic = TOPIC_ORDER[TopicIndex(t) + 1],
                    ![u].current_lesson = 1]
    ELSE us

\* variant: the number of the question (from 1) is stored as the index
ShowQuestionNumber(handler, qs, u, session_id, active, question_index) ==
    IF active = None \/ active # session_id
    THEN [qs |-> qs, reply |-> ErrorReply(handler, u)]
    ELSE [qs |-> [qs EXCEPT ![session_id].current_question = question_index + 1],
          reply |-> QuestionReply(handler, u, session_id)]
\* show_question for an index inside the question list
ShowQuestion(handler, qs, u, session_id, active, question_index) ==
    IF active = None \/ active # session_id
    THEN [qs |-> qs, reply |-> ErrorReply(handler, u)]
    ELSE [qs |-> [qs EXCEPT ![session_id].current_question = question_index],
          reply |-> QuestionReply(handler, u, session_id)]

GetOrCreateLessonProgress(u, t, l) ==
    /\ <<u, t, l>> \notin DOMAIN lesson_progress
    /\ lesson_progress' = get_or_create_lesson_progress(lesson_progress, u, t, l)
    /\ UNCHANGED <<users, quiz_sessions, user_data, reply>>

\* start_quiz, from the list the agent has returned
StartQuiz(u, t, l, questions) ==
    LET created == create_quiz_session(quiz_sessions, u, t, l, questions) IN
    IF questions = <<>>
    THEN /\ reply' = GenerationFailedReply(u)
         /\ UNCHANGED <<users, lesson_progress, quiz_sessions, user_data>>
    ELSE /\ created.id <= MaxSessions
         /\ user_data' = [user_data EXCEPT ![u] = [quiz_session_id |-> created.id,
                                                   quiz_correct_count |-> 0]]
         /\ \E active \in GetActive(created.qs, u) :
              LET shown == ShowQuestion("start_quiz", created.qs, u, created.id, active, 0) IN
              /\ quiz_sessions' = shown.qs
              /\ reply' = [shown.reply EXCEPT !.discarded = created.discarded]
         /\ UNCHANGED <<users, lesson_progress>>

HandleQuizAnswer(u, answer_index) ==
    LET session_id == user_data[u].quiz_session_id IN
    \E active \in GetActive(quiz_sessions, u) :
      IF session_id = None \/ active = None \/ active # session_id
      THEN /\ reply' = ErrorReply("handle_quiz_answer", u)
           /\ UNCHANGED <<users, lesson_progress, quiz_sessions, user_data>>
      ELSE LET quiz_session == quiz_sessions[session_id]
               current_question_index == quiz_session.current_question
               correct_answer_index == quiz_session.questions[current_question_index + 1]
               is_correct == (answer_index = correct_answer_index)
               answer == [question_index |-> current_question_index,
                          user_answer |-> answer_index,
                          correct_answer |-> correct_answer_index,
                          is_correct |-> is_correct]
           IN  /\ quiz_sessions' = [quiz_sessions EXCEPT ![session_id].answers =
                                        Append(quiz_session.answers, answer)]
               /\ user_data' = [user_data EXCEPT ![u].quiz_correct_count =
                                    IF is_correct THEN @ + 1 ELSE @]
               /\ reply' = AnswerReply(u, session_id, is_correct)
               /\ UNCHANGED <<users, lesson_progress>>

\* show_quiz_result: active is the result of get_active_quiz_session,
\* ui_fails says whether sending the sticker or the texts raised
ShowQuizResult(u, active, ui_fails) ==
    LET session_id == user_data[u].quiz_session_id IN
    IF active = None \/ active # session_id
    THEN /\ reply' = ErrorReply("handle_next_question", u)
         /\ UNCHANGED <<users, lesson_progress, quiz_sessions, user_data>>
    ELSE LET quiz_session == quiz_sessions[session_id]
             correct_count == user_data[u].quiz_correct_count
             total_questions == Len(quiz_session.questions)
             score == QuizScore(correct_count, total_questions)
             passed == Passed(score)
             recorded == update_lesson_progress(lesson_progress, users, u,
                             quiz_session.topic_id, quiz_session.lesson_id, score, passed)
             topic_completed == _check_topic_completion(recorded.lp, recorded.us, u,
                                                        quiz_session.topic_id)
         IN  /\ quiz_sessions' = complete_quiz_session(quiz_sessions, session_id, score)
             /\ lesson_progress' = recorded.lp
             /\ IF ui_fails
                THEN /\ users' = recorded.us
                     /\ user_data' = user_data
                     /\ reply' = ErrorReply("show_quiz_result", u)
                ELSE /\ users' = IF passed /\ topic_completed
                                 THEN _update_user_current_position(recorded.us, u,
                                          quiz_session.topic_id, quiz_session.lesson_id)
                                 ELSE recorded.us
                     /\ user_data' = [user_data EXCEPT ![u] = NoQuizContext]
                     /\ reply' = ResultReply(u, session_id, score, passed)

HandleNextQuestion(u) ==
    LET session_id == user_data[u].quiz_session_id IN
    \E active \in GetActive(quiz_sessions, u) :
      IF active = None \/ active # session_id
      THEN /\ reply' = ErrorReply("handle_next_question", u)
           /\ UNCHANGED <<users, lesson_progress, quiz_sessions, user_data>>
      ELSE LET quiz_session == quiz_sessions[session_id]
               next_question_index == quiz_session.current_question + 1
           IN  IF next_question_index >= Len(quiz_session.questions)
               THEN \E ui_fails \in BOOLEAN : ShowQuizResult(u, active, ui_fails)
               ELSE LET shown == ShowQuestion("handle_next_question", quiz_sessions, u,
                                              session_id, active, next_question_index) IN
                    /\ quiz_sessions' = shown.qs
                    /\ reply' = shown.reply
                    /\ UNCHANGED <<users, lesson_progress, user_data>>

(***************************************************************************)
(* bot/handlers/menu_handler.py                                            *)
(***************************************************************************)
ConfirmResetProgress(u) ==
    LET r == reset_user_progress(lesson_progress, quiz_sessions, users, u) IN
    /\ lesson_progress' = r.lp
    /\ quiz_sessions' = r.qs
    /\ users' = r.us
    /\ reply' = ResetReply(u)
    /\ UNCHANGED user_data

(***************************************************************************)
(* Unlock policy: bot/keyboards/menu_keyboards.py and                      *)
(* services/progress_service.py                                            *)
(***************************************************************************)
\* get_topics_keyboard() without an argument
NoProgress == [no_progress |-> TRUE]

Min(a, b) == IF a <= b THEN a ELSE b

\* index of the last topic the keyboard loop appends before it breaks
RECURSIVE KeyboardTopicsUpTo(_, _)
KeyboardTopicsUpTo(user_progress, i) ==
    IF i > Len(TOPIC_ORDER) THEN {}
    ELSE LET prev_topic_id == TOPIC_ORDER[i - 1] IN
         IF prev_topic_id \in DOMAIN user_progress.topics_progress
         THEN LET total_lessons == LEARNING_STRUCTURE[prev_topic_id]
                  completed_lessons ==
                      user_progress.topics_progress[prev_topic_id].completed_lessons
                  required_lessons == Min(2, total_lessons)
              IN  IF completed_lessons >= required_lessons
                  THEN {TOPIC_ORDER[i]} \cup KeyboardTopicsUpTo(user_progress, i + 1)
                  ELSE {}
         ELSE {}

\* variant: no gate on topics
every_topic(user_progress) ==
    TopicIds

\* menu_keyboards._get_available_topics
_get_available_topics(user_progress) ==
    IF user_progress = NoProgress THEN {TOPIC_ORDER[1]}
    ELSE {TOPIC_ORDER[1]} \cup KeyboardTopicsUpTo(user_progress, 2)

\* variant: no gate on lessons
every_lesson(topic_id, user_progress) ==
    LessonIds(topic_id)

\* menu_keyboards._get_available_lessons: the summary is looked up with the
\* integer lesson_id
_get_available_lessons(topic_id, user_progress) ==
    IF user_progress = NoProgress THEN {1}
    ELSE IF topic_id \notin DOMAIN user_progress.topics_progress THEN {1}
    ELSE LET lessons_data == user_progress.topics_progress[topic_id].lessons
             total_lessons == LEARNING_STRUCTURE[topic_id]
         IN  {1} \cup {lesson_id + 1 : lesson_id \in
                        {l \in 1..total_lessons :
                            /\ IntKey(l) \in DOMAIN lessons_data
                            /\ lessons_data[IntKey(l)].is_completed
                            /\ l + 1 <= total_lessons}}

\* ProgressService.calculate_topic_progress(...)["status"]
TopicStatus(progress, topic_id) ==
    IF topic_id \notin DOMAIN progress.topics_progress THEN "available"
    ELSE LET completed_lessons == progress.topics_progress[topic_id].completed_lessons IN
         IF completed_lessons = 0 THEN "available"
         ELSE IF completed_lessons = LEARNING_STRUCTURE[topic_id] THEN "completed"
         ELSE "in_progress"

RECURSIVE ServiceTopicsUpTo(_, _)
ServiceTopicsUpTo(progress, i) ==
    IF i > Len(TOPIC_ORDER) THEN {}
    ELSE IF TopicStatus(progress, TOPIC_ORDER[i - 1]) = "completed"
    THEN {TOPIC_ORDER[i]} \cup ServiceTopicsUpTo(progress, i + 1)
    ELSE {}

\* ProgressService._get_available_topics
ProgressService_get_available_topics(progress) ==
    {TOPIC_ORDER[1]} \cup ServiceTopicsUpTo(progress, 2)

\* ProgressService._get_available_lessons: the summary is looked up with
\* str(lesson_id)
ProgressService_get_available_lessons(topic_id, progress) ==
    IF topic_id \notin DOMAIN progress.topics_progress THEN {1}
    ELSE LET lessons_data == progress.topics_progress[topic_id].lessons
             total_lessons == LEARNING_STRUCTURE[topic_id]
         IN  {1} \cup {lesson_id + 1 : lesson_id \in
                        {l \in 1..total_lessons :
                            /\ StrKey(l) \in DOMAIN lessons_data
                            /\ lessons_data[StrKey(l)].is_completed
                            /\ l + 1 <= total_lessons}}

(***************************************************************************)
(* Specification                                                           *)
(***************************************************************************)
Init ==
    /\ users = [u \in Users |-> NewUserProgress]
    /\ lesson_progress = <<>>
    /\ quiz_sessions = <<>>
    /\ user_data = [u \in Users |-> NoQuizContext]
    /\ reply = NoReply
    /\ stray = 0
    /\ menu = NoMenu
    /\ gen = NoGen

\* a callback button is pressed: in_flow when the button belongs to the
\* message shown last, otherwise the press is a stray one
Press(in_flow) ==
    /\ in_flow \/ stray < MaxStray
    /\ stray' = IF in_flow THEN stray ELSE stray + 1

\* the lessons the learners of the model open
Play == {<<TOPIC_ORDER[1], 1>>, <<TOPIC_ORDER[1], 2>>}

CreateProgress ==
    \E u \in Users, k \in Play :
        GetOrCreateLessonProgress(u, k[1], k[2]) /\ UNCHANGED <<stray, menu, gen>>

Start ==
    \E u \in Users, k \in Play, q \in QuestionLists :
        StartQuiz(u, k[1], k[2], q) /\ UNCHANGED <<stray, menu, gen>>

Answer ==
    \E u \in Users, a \in AnswerIndexes :
        /\ Press(reply.kind = "question" /\ reply.user = u)
        /\ HandleQuizAnswer(u, a)
        /\ UNCHANGED <<menu, gen>>

NextQuestion ==
    \E u \in Users :
        /\ Press(reply.kind = "answer" /\ reply.user = u)
        /\ HandleNextQuestion(u)
        /\ UNCHANGED <<menu, gen>>

ResetProgress ==
    \E u \in Users : ConfirmResetProgress(u) /\ UNCHANGED <<stray, menu, gen>>

Next ==
    \/ CreateProgress
    \/ Start
    \/ Answer
    \/ NextQuestion
    \/ ResetProgress

Spec == Init /\ [][Next]_vars

(***************************************************************************)
(* Answers with any index.  The callback pattern of handle_quiz_answer is  *)
(* answer_<digits>, so an index beyond the options of the question can be  *)
(* delivered.                                                              *)
(***************************************************************************)
\* the options of a question
NumOptions == 4

\* an index among the options, and one beyond them
DeliveredIndexes == {0, NumOptions}

AnswerDelivered ==
    \E u \in Users, a \in DeliveredIndexes :
        /\ Press(reply.kind = "question" /\ reply.user = u)
        /\ HandleQuizAnswer(u, a)
        /\ UNCHANGED <<menu, gen>>

\* start_quiz of the first lesson with questions_per_lesson questions
StartFirstLesson ==
    \E u \in Users :
        \E q \in {x \in QuestionLists : Len(x) = questions_per_lesson} :
            StartQuiz(u, TOPIC_ORDER[1], 1, q) /\ UNCHANGED <<stray, menu, gen>>

NextAnswers ==
    \/ StartFirstLesson
    \/ AnswerDelivered
    \/ NextQuestion

SpecAnswers == Init /\ [][NextAnswers]_vars
(***************************************************************************)
(* Unlock policy over the progress the store can hold.  A quiz attempt is  *)
(* taken as the two store calls that record it; the keyboards and the      *)
(* learning path are computed from the summary read at that moment, and a  *)
(* recorded attempt drops the one computed before.                         *)
(***************************************************************************)
AttemptScores == {FracOfInt(60), FracOfInt(80)}

RECURSIVE AttemptsIn(_, _)
AttemptsIn(lp, S) ==
    IF S = {} THEN 0
    ELSE LET k == CHOOSE x \in S : TRUE IN lp[k].attempts + AttemptsIn(lp, S \ {k})

\* get_or_create_lesson_progress, then update_lesson_progress
RecordAttempt(u, t, l, score) ==
    LET rows == get_or_create_lesson_progress(lesson_progress, u, t, l)
        recorded == update_lesson_progress(rows, users, u, t, l, score, Passed(score))
    IN  /\ AttemptsIn(lesson_progress, DOMAIN lesson_progress) < MaxAttempts
        /\ lesson_progress' = recorded.lp
        /\ users' = recorded.us
        /\ menu' = NoMenu
        /\ UNCHANGED <<quiz_sessions, user_data, reply, stray, gen>>

\* get_topics_keyboard: with the dict of the user's summary, or without
\* an argument
ShowTopics(u, with_progress) ==
    LET user_progress == IF with_progress
                         THEN get_user_progress_summary(lesson_progress, users, u)
                         ELSE NoProgress
    IN  /\ menu' = [kind |-> "topics_keyboard", user |-> u,
                    with_progress |-> with_progress,
                    topics |-> _get_available_topics(user_progress)]
        /\ UNCHANGED <<users, lesson_progress, quiz_sessions, user_data, reply, stray, gen>>

\* variant: the keyboard computed for the user's first read (no rows) is
\* kept and shown again
ShowLessonsCached(u, t) ==
    LET user_progress == get_user_progress_summary(<<>>, users, u)
    IN  /\ menu' = [kind |-> "lessons_keyboard", user |-> u, topic |-> t,
                    lessons |-> _get_available_lessons(t, user_progress)]
        /\ UNCHANGED <<users, lesson_progress, quiz_sessions, user_data, reply, stray, gen>>
\* get_lessons_keyboard with the dict of the user's summary
ShowLessons(u, t) ==
    LET user_progress == get_user_progress_summary(lesson_progress, users, u)
    IN  /\ menu' = [kind |-> "lessons_keyboard", user |-> u, topic |-> t,
                    lessons |-> _get_available_lessons(t, user_progress)]
        /\ UNCHANGED <<users, lesson_progress, quiz_sessions, user_data, reply, stray, gen>>

\* ProgressService.get_user_learning_path
GetUserLearningPath(u) ==
    LET progress == get_user_progress_summary(lesson_progress, users, u)
        available_topics == ProgressService_get_available_topics(progress)
    IN  /\ menu' = [kind |-> "learning_path", user |-> u,
                    available_topics |-> available_topics,
                    available_lessons |->
                        [t \in available_topics |->
                            ProgressService_get_available_lessons(t, progress)]]
        /\ UNCHANGED <<users, lesson_progress, quiz_sessions, user_data, reply, stray, gen>>

Attempt ==
    \E u \in Users, t \in TopicIds, score \in AttemptScores :
        \E l \in LessonIds(t) : RecordAttempt(u, t, l, score)

TopicsKeyboard == \E u \in Users, with_progress \in BOOLEAN : ShowTopics(u, with_progress)

LessonsKeyboard == \E u \in Users, t \in TopicIds : ShowLessons(u, t)

LearningPath == \E u \in Users : GetUserLearningPath(u)

NextUnlock ==
    \/ Attempt
    \/ TopicsKeyboard
    \/ LessonsKeyboard
    \/ LearningPath

SpecUnlock == Init /\ [][NextUnlock]_vars

(***************************************************************************)
(* Storage faults while an attempt is recorded.  A fault is the statement  *)
(* of update_lesson_progress that raises: the query of the lesson row, one *)
(* of the three queries of _update_user_total_progress, the query of       *)
(* _find_next_available_position, or the commit at the end of the          *)
(* transaction.  An exception that leaves the with-block rolls the         *)
(* transaction back.  _find_next_available_position catches its own        *)
(* exception and returns None, the transaction goes on, and its commit may *)
(* succeed or fail.                                                        *)
(***************************************************************************)
Faults ==
    {"none", "lesson_query", "count_query", "avg_query", "user_query",
     "position_query", "commit"}

\* update_lesson_progress under a fault: the set of [lp, us, ok] it can
\* leave behind
update_lesson_progress_under(lp, us, u, t, l, score, is_completed, fault) ==
    LET k == <<u, t, l>>
        whole == update_lesson_progress(lp, us, u, t, l, score, is_completed)
        rolled_back == [lp |-> lp, us |-> us, ok |-> FALSE]
        recomputes == k \in DOMAIN lp /\ is_completed /\ ~lp[k].is_completed
        position_kept ==
            [lp |-> whole.lp,
             us |-> IF u \in DOMAIN us
                    THEN [whole.us EXCEPT ![u].current_topic = us[u].current_topic,
                                          ![u].current_lesson = us[u].current_lesson]
                    ELSE whole.us,
             ok |-> TRUE]
    IN  IF fault = "none" THEN {whole}
        ELSE IF fault \in {"lesson_query", "commit"} THEN {rolled_back}
        ELSE IF ~recomputes THEN {whole}
        ELSE IF fault \in {"count_query", "avg_query", "user_query"}
        THEN {rolled_back}
        ELSE {rolled_back, position_kept}

\* update_lesson_progress of an existing or missing row, under a fault
RecordUnderFault(u, t, l, score, fault) ==
    /\ AttemptsIn(lesson_progress, DOMAIN lesson_progress) < MaxAttempts
    /\ \E recorded \in update_lesson_progress_under(lesson_progress, users, u, t, l,
                                                    score, Passed(score), fault) :
         /\ lesson_progress' = recorded.lp
         /\ users' = recorded.us
    /\ UNCHANGED <<quiz_sessions, user_data, reply, stray, menu, gen>>

CreateRow ==
    \E u \in Users, k \in Play :
        GetOrCreateLessonProgress(u, k[1], k[2]) /\ UNCHANGED <<stray, menu, gen>>

\* the scores of the attempts recorded here: a failed one, a passed one and
\* a better one
RetakeScores == AttemptScores \cup {FracOfInt(100)}

FaultyAttempt ==
    \E u \in Users, k \in Play, score \in RetakeScores, fault \in Faults :
        RecordUnderFault(u, k[1], k[2], score, fault)

NextStorage ==
    \/ CreateRow
    \/ FaultyAttempt

SpecStorage == Init /\ [][NextStorage]_vars
(***************************************************************************)
(* Results of quizzes over any number of sessions.  The result of a quiz   *)
(* is taken as the progress calls of show_quiz_result: the attempt is      *)
(* recorded, the completion of the topic is read from the summary, and the *)
(* position is moved when the quiz was passed and the topic is complete.   *)
(***************************************************************************)
\* returns [lp, us]
record_quiz_result(lp, us, u, t, l, score) ==
    LET passed == Passed(score)
        recorded == update_lesson_progress(lp, us, u, t, l, score, passed)
        topic_completed == _check_topic_completion(recorded.lp, recorded.us, u, t)
    IN  [lp |-> recorded.lp,
         us |-> IF passed /\ topic_completed
                THEN _update_user_current_position(recorded.us, u, t, l)
                ELSE recorded.us]

RecordQuizResult(u, t, l, score) ==
    LET result == record_quiz_result(lesson_progress, users, u, t, l, score) IN
    /\ AttemptsIn(lesson_progress, DOMAIN lesson_progress) < MaxAttempts
    /\ lesson_progress' = result.lp
    /\ users' = result.us
    /\ UNCHANGED <<quiz_sessions, user_data, reply, stray, menu, gen>>

QuizResult ==
    \E u \in Users, k \in Play, score \in RetakeScores :
        RecordQuizResult(u, k[1], k[2], score)

NextResults ==
    \/ CreateRow
    \/ QuizResult

SpecResults == Init /\ [][NextResults]_vars
(***************************************************************************)
(* Question suppliers.  A question is kept as the tier it comes from:      *)
(* "llm" (generated, four options and a correct index among them),         *)
(* "llm_loose" (generated and accepted by the service, with another number *)
(* of options or a correct index beyond them), "bank" (a static question), *)
(* "dup" (a copy of the first static                                       *)
(* question) or "placeholder".  The backend is what the request meets: the *)
(* LLM initialised or not, documents found or not, and the response of the *)
(* chain: it raises, it is not JSON, or it is a list with some valid and   *)
(* some invalid items.  The service of a request is the entry point that   *)
(* is called: the adaptive content service, the RAG service, or the agent  *)
(* as start_quiz calls it; analysis_ok says whether the progress of the    *)
(* user could be read and analysed.                                        *)
(***************************************************************************)
Counts == 1..10

SupplierLessons == 1..3

Responses ==
    {[kind |-> "raises", valid |-> 0, invalid |-> 0, loose |-> 0],
     [kind |-> "malformed", valid |-> 0, invalid |-> 0, loose |-> 0]}
    \cup {r \in [kind : {"items"}, valid : 0..MaxGenerated, invalid : 0..1,
                  loose : 0..1] : r.loose <= r.valid}

Backends ==
    {[llm |-> FALSE, docs |-> FALSE, response |-> [kind |-> "raises", valid |-> 0, invalid |-> 0, loose |-> 0]]}
    \cup {[llm |-> TRUE, docs |-> FALSE, response |-> [kind |-> "raises", valid |-> 0, invalid |-> 0, loose |-> 0]]}
    \cup [llm : {TRUE}, docs : {TRUE}, response : Responses]

Requests ==
    [kind : {"request"}, service : {"adaptive", "rag", "agent"}, topic : TopicIds,
     lesson : SupplierLessons, count : Counts, analysis_ok : BOOLEAN,
     backend : Backends, questions : {<<>>}]

Repeat(tag, n) == [i \in 1..n |-> tag]

\* the items of a response that the service turns into questions: valid
\* counts the items with the four keys and the field types of
\* GeneratedQuestion, loose those of them whose options are not four or
\* whose correct_answer is not among the options
Generated(response) ==
    [i \in 1..response.valid |-> IF i <= response.loose THEN "llm_loose" ELSE "llm"]

GeneratedTags == {"llm", "llm_loose"}

\* sizes of fallback_questions of AdaptiveContentService
AdaptiveBank(topic, lesson_id) ==
    IF topic = TOPIC_ORDER[1]
    THEN (IF lesson_id = 1 THEN 3 ELSE IF lesson_id = 2 THEN 2
          ELSE IF lesson_id = 3 THEN 1 ELSE 0)
    ELSE IF topic = TOPIC_ORDER[2]
    THEN (IF lesson_id \in {1, 2} THEN 1 ELSE 0)
    ELSE 0

\* sizes of fallback_questions of RAGService
RagBank(topic, lesson_id) ==
    IF topic = TOPIC_ORDER[1]
    THEN (IF lesson_id = 1 THEN 3 ELSE 0)
    ELSE IF topic = TOPIC_ORDER[2]
    THEN (IF lesson_id \in {1, 2} THEN 1 ELSE 0)
    ELSE 0

\* AdaptiveContentService._get_fallback_questions
Adaptive_get_fallback_questions(topic, lesson_id, count) ==
    LET bank == AdaptiveBank(topic, lesson_id)
        padded == [i \in 1..(IF bank > count THEN bank ELSE count) |->
                     IF i <= bank THEN "bank"
                     ELSE IF bank > 0 THEN "dup" ELSE "placeholder"]
    IN  SubSeq(padded, 1, count)

\* AdaptiveContentService._generate_questions_with_llm: the questions, or
\* <<>> for None
Adaptive_generate_questions_with_llm(backend, count) ==
    IF ~backend.docs THEN <<>>
    ELSE IF backend.response.kind # "items" THEN <<>>
    ELSE IF backend.response.valid >= count
    THEN Generated(backend.response)
    ELSE <<>>

\* the count of the adaptive service: question_count of the user analysis,
\* or settings.questions_per_lesson when the analysis has failed
AdaptiveCount(request) ==
    IF request.analysis_ok THEN 3 ELSE request.count

generate_adaptive_questions(request) ==
    LET count == AdaptiveCount(request)
        questions == IF request.backend.llm
                     THEN Adaptive_generate_questions_with_llm(request.backend, count)
                     ELSE <<>>
    IN  IF questions # <<>> /\ Len(questions) >= count
        THEN questions
        ELSE Adaptive_get_fallback_questions(request.topic, request.lesson, count)

\* RAGService._get_fallback_questions
Rag_get_fallback_questions(topic, lesson_id, count) ==
    LET bank == RagBank(topic, lesson_id) IN
    [i \in 1..count |-> IF i <= bank THEN "bank" ELSE "placeholder"]

\* variant: a response that cannot be used gives no question at all
llm_without_fallback(request) ==
    IF ~request.backend.docs \/ request.backend.response.kind # "items"
    THEN <<>>
    ELSE Generated(request.backend.response)

\* RAGService._generate_questions_with_llm
Rag_generate_questions_with_llm(request) ==
    LET fallback == Rag_get_fallback_questions(request.topic, request.lesson,
                                               request.count)
    IN  IF ~request.backend.docs THEN fallback
        ELSE IF request.backend.response.kind # "items" THEN fallback
        ELSE IF request.backend.response.valid > 0
        THEN Generated(request.backend.response)
        ELSE fallback

\* RAGService.generate_questions
generate_questions(request) ==
    IF request.backend.llm
    THEN Rag_generate_questions_with_llm(request)
    ELSE Rag_get_fallback_questions(request.topic, request.lesson, request.count)

\* RAGService.get_adaptive_questions
get_adaptive_questions(request) ==
    generate_questions([request EXCEPT !.count = questions_per_lesson])

\* LearningAIAgent.generate_adaptive_questions: the graph analyses the user,
\* personalises and generates; when the analysis has failed the next node
\* raises on the missing analysis and the list is empty
Agent_generate_adaptive_questions(request) ==
    IF request.analysis_ok THEN get_adaptive_questions(request) ELSE <<>>

\* the generated questions as the quiz session keeps them, each by the
\* index of its correct answer.  The tags of the suppliers do not keep that
\* index (0, 1 or 2 in the static banks, 0 in a placeholder, whatever the
\* response holds in a generated question); it is taken as 0 here
QuestionsData(questions) == [i \in 1..Len(questions) |-> 0]

\* the count the caller of the service is to receive
RequestedCount(request) ==
    IF request.service = "adaptive" THEN AdaptiveCount(request)
    ELSE IF request.service = "agent" THEN questions_per_lesson
    ELSE request.count

GenerateAdaptive ==
    /\ gen.kind = "request"
    /\ gen.service = "adaptive"
    /\ gen' = [gen EXCEPT !.kind = "response",
                          !.questions = generate_adaptive_questions(gen)]
    /\ UNCHANGED <<users, lesson_progress, quiz_sessions, user_data, reply, stray, menu>>

GenerateRag ==
    /\ gen.kind = "request"
    /\ gen.service = "rag"
    /\ gen' = [gen EXCEPT !.kind = "response",
                          !.questions = generate_questions(gen)]
    /\ UNCHANGED <<users, lesson_progress, quiz_sessions, user_data, reply, stray, menu>>

\* start_quiz with the questions of the agent
AgentStartQuiz ==
    /\ gen.kind = "request"
    /\ gen.service = "agent"
    /\ \E u \in Users :
         LET questions == Agent_generate_adaptive_questions(gen) IN
         /\ gen' = [gen EXCEPT !.kind = "response", !.questions = questions]
         /\ StartQuiz(u, gen.topic, gen.lesson, QuestionsData(questions))
    /\ UNCHANGED <<stray, menu>>

InitSupplier ==
    /\ users = [u \in Users |-> NewUserProgress]
    /\ lesson_progress = <<>>
    /\ quiz_sessions = <<>>
    /\ user_data = [u \in Users |-> NoQuizContext]
    /\ reply = NoReply
    /\ stray = 0
    /\ menu = NoMenu
    /\ gen \in Requests

NextSupplier ==
    \/ GenerateAdaptive
    \/ GenerateRag
    \/ AgentStartQuiz

SpecSupplier == InitSupplier /\ [][NextSupplier]_vars

(***************************************************************************)
(* The difficulty tag.  Three places of the code choose one: the RAG       *)
(* service for the questions of start_quiz, from the average score of the  *)
(* agent's analysis; the content settings of UserAnalysisService for the   *)
(* adaptive content service, from the completion rate; and the             *)
(* adapt_difficulty node of the agent, from the average score and the      *)
(* number of recent attempts.  Scores and rates are whole percents here;   *)
(* None stands for Python's None.                                          *)
(***************************************************************************)
Percents == 0..100

CompletionRates == {r \in Percents : r % 10 = 0}

RecentAttempts == 0..5

\* what the analysis of a user can hold: without a completed lesson the
\* average and the completion rate are 0; a completed lesson has an attempt
\* and a best score that passed
AnalysisInputs ==
    {a \in [kind : {"analysis"}, service : {"rag", "adaptive", "adapt_node"},
            average_score : Percents, overall_completion : CompletionRates,
            recent_attempts : RecentAttempts, difficulty : {"unset"}] :
        \/ a.average_score = 0 /\ a.overall_completion = 0
        \/ /\ a.average_score >= min_score_to_pass
           /\ a.overall_completion > 0
           /\ a.recent_attempts >= 1}

\* RAGService.get_adaptive_questions
get_adaptive_difficulty(avg_score) ==
    IF avg_score >= 90 THEN "advanced"
    ELSE IF avg_score >= 75 THEN "intermediate"
    ELSE "beginner"

\* UserAnalysisService._analyze_learning_patterns: learning_speed
learning_speed(completion_rate) ==
    IF completion_rate > 80 THEN "fast"
    ELSE IF completion_rate < 40 THEN "slow"
    ELSE "normal"

\* UserAnalysisService._determine_personalization_strategy
difficulty_progression(speed) ==
    IF speed = "fast" THEN "accelerated"
    ELSE IF speed = "slow" THEN "gentle"
    ELSE "gradual"

\* UserAnalysisService._configure_content_settings: difficulty
_configure_content_settings(progression) ==
    IF progression = "accelerated" THEN "advanced"
    ELSE IF progression = "gentle" THEN "beginner"
    ELSE "intermediate"

\* LearningAIAgent._adapt_difficulty_node: current_difficulty is None in
\* every state the agent is invoked with
_adapt_difficulty_node(avg_score, recent_attempts) ==
    IF recent_attempts >= 3
    THEN (IF avg_score >= 90 THEN "advanced"
          ELSE IF avg_score <= 60 THEN "beginner"
          ELSE "intermediate")
    ELSE "None"

RagDifficulty ==
    /\ gen.kind = "analysis"
    /\ gen.service = "rag"
    /\ gen' = [gen EXCEPT !.kind = "tagged",
                          !.difficulty = get_adaptive_difficulty(gen.average_score)]
    /\ UNCHANGED <<users, lesson_progress, quiz_sessions, user_data, reply, stray, menu>>

ContentSettingsDifficulty ==
    /\ gen.kind = "analysis"
    /\ gen.service = "adaptive"
    /\ gen' = [gen EXCEPT !.kind = "tagged",
                          !.difficulty = _configure_content_settings(
                              difficulty_progression(
                                  learning_speed(gen.overall_completion)))]
    /\ UNCHANGED <<users, lesson_progress, quiz_sessions, user_data, reply, stray, menu>>

AdaptDifficulty ==
    /\ gen.kind = "analysis"
    /\ gen.service = "adapt_node"
    /\ gen' = [gen EXCEPT !.kind = "tagged",
                          !.difficulty = _adapt_difficulty_node(gen.average_score,
                                                                gen.recent_attempts)]
    /\ UNCHANGED <<users, lesson_progress, quiz_sessions, user_data, reply, stray, menu>>

InitDifficulty ==
    /\ users = [u \in Users |-> NewUserProgress]
    /\ lesson_progress = <<>>
    /\ quiz_sessions = <<>>
    /\ user_data = [u \in Users |-> NoQuizContext]
    /\ reply = NoReply
    /\ stray = 0
    /\ menu = NoMenu
    /\ gen \in AnalysisInputs

NextDifficulty ==
    \/ RagDifficulty
    \/ ContentSettingsDifficulty
    \/ AdaptDifficulty

SpecDifficulty == InitDifficulty /\ [][NextDifficulty]_vars

(***************************************************************************)
(* Restart of the process.  main() builds the Application without a        *)
(* persistence object, so context.user_data lives in the memory of the     *)
(* process and a new process starts with an empty one; the rows of the     *)
(* database and the messages on the learner's screen stay.                 *)
(***************************************************************************)
Restart ==
    /\ user_data # [u \in Users |-> NoQuizContext]
    /\ user_data' = [u \in Users |-> NoQuizContext]
    /\ UNCHANGED <<users, lesson_progress, quiz_sessions, reply, stray, menu, gen>>

NextRestart ==
    \/ StartFirstLesson
    \/ Answer
    \/ NextQuestion
    \/ Restart

SpecRestart == Init /\ [][NextRestart]_vars

(***************************************************************************)
(* Quizzes started from the lessons keyboard.  The keyboard gives a start  *)
(* button to the lessons _get_available_lessons returns; the message with  *)
(* the buttons stays on the learner's screen, and start_quiz takes the     *)
(* topic and the lesson from the button without asking the policy again.   *)
(***************************************************************************)
FirstTopicLessons ==
    \E u \in Users : ShowLessons(u, TOPIC_ORDER[1])

StartShownLesson ==
    \E q \in {x \in QuestionLists : Len(x) = questions_per_lesson} :
        /\ menu # NoMenu
        /\ menu.kind = "lessons_keyboard"
        /\ \E l \in menu.lessons :
              StartQuiz(menu.user, menu.topic, l, q) /\ UNCHANGED <<stray, menu, gen>>

NextGate ==
    \/ CreateRow
    \/ FirstTopicLessons
    \/ StartShownLesson
    \/ Answer
    \/ NextQuestion
    \/ ResetProgress

SpecGate == Init /\ [][NextGate]_vars

(***************************************************************************)
(* Two learners.  Each has a row in user_progress and a context.user_data  *)
(* of their own; the tables are shared.  Both take the quiz of the first   *)
(* lesson, and their updates are handled one at a time in any order.  A    *)
(* press is in the flow of a learner when the learner's open session waits *)
(* for it: an answer when the question shown has no answer yet, "next"     *)
(* when it has one; any other press is a stray one.                        *)
(***************************************************************************)
Learners == {"u1", "u2"}

InitLearners ==
    /\ users = [u \in Learners |-> NewUserProgress]
    /\ lesson_progress = <<>>
    /\ quiz_sessions = <<>>
    /\ user_data = [u \in Learners |-> NoQuizContext]
    /\ reply = NoReply
    /\ stray = 0
    /\ menu = NoMenu
    /\ gen = NoGen

\* the learner has an open session, and the question it shows has an
\* answer (answered) or none
Waiting(u, answered) ==
    /\ user_data[u].quiz_session_id \in ActiveSessionIds(quiz_sessions, u)
    /\ LET session == quiz_sessions[user_data[u].quiz_session_id]
       IN  answered = (\E i \in 1..Len(session.answers) :
                          session.answers[i].question_index = session.current_question)

LearnerCreatesRow ==
    \E u \in Learners :
        GetOrCreateLessonProgress(u, TOPIC_ORDER[1], 1) /\ UNCHANGED <<stray, menu, gen>>

LearnerStarts ==
    \E u \in Learners :
        \E q \in {x \in QuestionLists : Len(x) = questions_per_lesson} :
            StartQuiz(u, TOPIC_ORDER[1], 1, q) /\ UNCHANGED <<stray, menu, gen>>

LearnerAnswers ==
    \E u \in Learners, a \in AnswerIndexes :
        /\ Press(Waiting(u, FALSE))
        /\ HandleQuizAnswer(u, a)
        /\ UNCHANGED <<menu, gen>>

LearnerNext ==
    \E u \in Learners :
        /\ Press(Waiting(u, TRUE))
        /\ HandleNextQuestion(u)
        /\ UNCHANGED <<menu, gen>>

LearnerResets ==
    \E u \in Learners : ConfirmResetProgress(u) /\ UNCHANGED <<stray, menu, gen>>

NextLearners ==
    \/ LearnerCreatesRow
    \/ LearnerStarts
    \/ LearnerAnswers
    \/ LearnerNext
    \/ LearnerResets

SpecLearners == InitLearners /\ [][NextLearners]_vars
(***************************************************************************)
(* Helpers of the claims                                                   *)
(***************************************************************************)
\* sessions that this step takes from not completed to completed
CompletedNow ==
    {sid \in DOMAIN quiz_sessions :
        /\ ~quiz_sessions[sid].is_completed
        /\ sid \in DOMAIN quiz_sessions'
        /\ quiz_sessions'[sid].is_completed}

SessionKey(session) == <<session.user_id, session.topic_id, session.lesson_id>>

\* u presses "next question" although its quiz was already completed: the
\* result was just shown to u, or the context still names a completed session
RepeatedComplete(u) ==
    /\ HandleNextQuestion(u)
    /\ \/ reply.kind = "result" /\ reply.user = u
       \/ /\ user_data[u].quiz_session_id \in DOMAIN quiz_sessions
          /\ quiz_sessions[user_data[u].quiz_session_id].user_id = u
          /\ quiz_sessions[user_data[u].quiz_session_id].is_completed

Score(n) == FracOfInt(n)

(***************************************************************************)
(* Claims                                                                  *)
(***************************************************************************)
\* C1: for every user the stored total_lessons_completed equals the number
\* of the user's lesson_progress rows with is_completed = true.
C1_AggregateConsistency ==
    \A u \in Users :
        users[u].total_lessons_completed =
            Cardinality(CompletedKeys(lesson_progress, u))

\* C2: a lesson_progress row that is completed stays completed in every step
\* that keeps the row, whatever the score of the attempt the step records.
C2_CompletionMonotonic ==
    [][\A k \in DOMAIN lesson_progress :
          (lesson_progress[k].is_completed /\ k \in DOMAIN lesson_progress')
              => lesson_progress'[k].is_completed]_vars

\* a completed lesson was retaken and the retake failed
C2_Witness ==
    \E k \in DOMAIN lesson_progress :
        /\ lesson_progress[k].is_completed
        /\ lesson_progress[k].attempts >= 2
        /\ ~Passed(lesson_progress[k].last_attempt_score)

\* C4: the score recorded when a session of N questions completes is
\* round(correct_count / N * 100), and the attempt is passed exactly when
\* that rounded score reaches the threshold.
C4_RoundedScore ==
    [][\A sid \in CompletedNow :
          LET u == quiz_sessions[sid].user_id
              rounded == Round(QuizScore(user_data[u].quiz_correct_count,
                                         Len(quiz_sessions[sid].questions)))
          IN  /\ quiz_sessions'[sid].score = Score(rounded)
              /\ reply'.kind = "result" => reply'.passed = (rounded >= min_score_to_pass)]_vars

C10_ScenarioB ==
    [][\A sid \in CompletedNow :
          LET u == quiz_sessions[sid].user_id
              t == quiz_sessions[sid].topic_id
              k == SessionKey(quiz_sessions[sid])
          IN  (/\ CompletedKeys(lesson_progress, u) = {}
               /\ k \in DOMAIN lesson_progress
               /\ quiz_sessions[sid].lesson_id = 1
               /\ quiz_sessions'[sid].score = Score(80))
              => /\ lesson_progress'[k].is_completed
                 /\ lesson_progress'[k].best_score = Score(80)
                 /\ users'[u].total_lessons_completed = 1
                 /\ 2 \in _get_available_lessons(t,
                        get_user_progress_summary(lesson_progress', users', u))]_vars

\* lesson l of topic t has a completed row of user u
Completed(u, t, l) ==
    /\ <<u, t, l>> \in DOMAIN lesson_progress
    /\ lesson_progress[<<u, t, l>>].is_completed

CompletedIn(u, t) == Cardinality({l \in LessonIds(t) : Completed(u, t, l)})

HasRows(u) == \E k \in DOMAIN lesson_progress : k[1] = u

\* the lesson rule of the claims: lesson 1, and l + 1 exactly when l is completed
LessonRule(u, t, lessons) ==
    /\ 1 \in lessons
    /\ \A l \in LessonIds(t) :
          l + 1 \in LessonIds(t) => (l + 1 \in lessons <=> Completed(u, t, l))

\* C7: in every list of unlocked lessons the policy returns, lesson 1 is
\* unlocked and lesson k+1 is unlocked exactly when lesson k of the topic is
\* completed; both the lessons keyboard and the learning path obey it.
C7_LessonGate ==
    /\ menu.kind = "lessons_keyboard"
          => LessonRule(menu.user, menu.topic, menu.lessons)
    /\ menu.kind = "learning_path"
          => \A t \in DOMAIN menu.available_lessons :
                LessonRule(menu.user, t, menu.available_lessons[t])

EarlierTopicsDone(u, i, need(_)) ==
    \A j \in 1..(i - 1) : CompletedIn(u, TOPIC_ORDER[j]) >= need(TOPIC_ORDER[j])

C3_ExactCount ==
    gen.kind = "response" => Len(gen.questions) = RequestedCount(gen)


\* C11: a retake of a completed lesson that scores below the threshold and
\* below best_score adds exactly one attempt and leaves best_score,
\* is_completed = true and the user's total_lessons_completed unchanged.
C11_FailedRetake ==
    [][\A sid \in CompletedNow :
          LET u == quiz_sessions[sid].user_id
              k == SessionKey(quiz_sessions[sid])
              score == quiz_sessions'[sid].score
          IN  (/\ k \in DOMAIN lesson_progress
               /\ lesson_progress[k].is_completed
               /\ ~Passed(score)
               /\ FracLT(score, lesson_progress[k].best_score))
              => /\ k \in DOMAIN lesson_progress'
                 /\ lesson_progress'[k].attempts = lesson_progress[k].attempts + 1
                 /\ lesson_progress'[k].best_score = lesson_progress[k].best_score
                 /\ lesson_progress'[k].is_completed
                 /\ users'[u].total_lessons_completed =
                        users[u].total_lessons_completed]_vars

\* lesson 1 was passed with 80 and then retaken with 60
C11_Witness ==
    \E k \in DOMAIN lesson_progress :
        /\ k[3] = 1
        /\ lesson_progress[k].is_completed
        /\ lesson_progress[k].attempts = 2
        /\ lesson_progress[k].best_score = Score(80)
        /\ lesson_progress[k].last_attempt_score = Score(60)


\* C12: best_score is the maximum of the scores of all attempts recorded for
\* the lesson: it is 0 while no attempt is recorded, and every recorded
\* attempt leaves it at the larger of the best score before and the score of
\* that attempt, so it never decreases.
C12_BestIsMax ==
    /\ [](\A k \in DOMAIN lesson_progress :
             lesson_progress[k].attempts = 0 => lesson_progress[k].best_score = Zero)
    /\ [][\A k \in DOMAIN lesson_progress \cap DOMAIN lesson_progress' :
             lesson_progress'[k].attempts # lesson_progress[k].attempts =>
                LET before == lesson_progress[k].best_score
                    attempt == lesson_progress'[k].last_attempt_score
                IN  /\ lesson_progress'[k].best_score =
                          (IF FracLE(before, attempt) THEN attempt ELSE before)
                    /\ FracLE(before, lesson_progress'[k].best_score)]_vars

\* a lesson with two attempts, the later one lower than the best
C12_Witness ==
    \E k \in DOMAIN lesson_progress :
        /\ lesson_progress[k].attempts = 2
        /\ lesson_progress[k].best_score = Score(80)
        /\ lesson_progress[k].last_attempt_score = QuizScore(2, 3)


\* C13: in every state every quiz session holds as many answers as its
\* current question index says.
C13_AnswersMatchIndex ==
    \A sid \in DOMAIN quiz_sessions :
        Len(quiz_sessions[sid].answers) = quiz_sessions[sid].current_question


\* C14: a user never has more than one quiz session that is not completed.
C14_SingleActiveSession ==
    \A u \in Users : Cardinality(ActiveSessionIds(quiz_sessions, u)) <= 1


\* the incomplete sessions of user u for lesson l of topic t
IncompleteOf(qs, u, t, l) ==
    {i \in DOMAIN qs : SessionKey(qs[i]) = <<u, t, l>> /\ ~qs[i].is_completed}

\* C15: starting a quiz removes every prior incomplete session of the same
\* (user, topic, lesson) and inserts the new one in the same step: after the
\* step the new session, with current_question = 0 and no answers, is the
\* only incomplete session of that key, and every other session is as before.
C15_CreateReplaces ==
    [][\A u \in Users, k \in Play, q \in QuestionLists :
          StartQuiz(u, k[1], k[2], q) =>
              LET sid == user_data'[u].quiz_session_id
                  old == IncompleteOf(quiz_sessions, u, k[1], k[2])
              IN  /\ IncompleteOf(quiz_sessions', u, k[1], k[2]) = {sid}
                  /\ quiz_sessions'[sid] = NewQuizSession(u, k[1], k[2], q)
                  /\ reply'.discarded = Cardinality(old)
                  /\ \A i \in DOMAIN quiz_sessions \ old :
                        i \in DOMAIN quiz_sessions' /\ quiz_sessions'[i] = quiz_sessions[i]
                  /\ DOMAIN quiz_sessions' = (DOMAIN quiz_sessions \ old) \cup {sid}]_vars

\* a quiz was started over an incomplete session of the same lesson, which is
\* gone: the new session is the only one in the table
C15_Witness ==
    /\ reply.handler = "start_quiz"
    /\ reply.discarded = 1
    /\ DOMAIN quiz_sessions = {user_data[reply.user].quiz_session_id}
    /\ quiz_sessions[user_data[reply.user].quiz_session_id].answers = <<>>
    /\ quiz_sessions[user_data[reply.user].quiz_session_id].current_question = 0


C17_CompleteOnlyWhenAnswered ==
    [][\A sid \in CompletedNow :
          LET answers == quiz_sessions[sid].answers
              N == Len(quiz_sessions[sid].questions)
          IN  /\ Len(answers) = N
              /\ \A i \in 1..Len(answers) : answers[i].question_index = i - 1]_vars


\* C18: a completed quiz session is terminal: as long as its row exists, no
\* step changes its is_completed, score, answers or current_question.
C18_CompletedIsTerminal ==
    [][\A sid \in DOMAIN quiz_sessions \cap DOMAIN quiz_sessions' :
          quiz_sessions[sid].is_completed =>
              /\ quiz_sessions'[sid].is_completed
              /\ quiz_sessions'[sid].score = quiz_sessions[sid].score
              /\ quiz_sessions'[sid].answers = quiz_sessions[sid].answers
              /\ quiz_sessions'[sid].current_question =
                     quiz_sessions[sid].current_question]_vars

\* the first session was completed, and a later session of the same lesson
\* was started, answered and completed with another score
C18_Witness ==
    /\ {1, 2} \subseteq DOMAIN quiz_sessions
    /\ quiz_sessions[1].is_completed
    /\ quiz_sessions[2].is_completed
    /\ SessionKey(quiz_sessions[1]) = SessionKey(quiz_sessions[2])
    /\ quiz_sessions[1].score # quiz_sessions[2].score


\* the grounded tier of a request has failed: no document found, the chain
\* raised, the response is not a list of items, or fewer than count valid
\* items were parsed
TierFailed(request) ==
    /\ request.backend.llm
    /\ \/ ~request.backend.docs
       \/ request.backend.response.kind # "items"
       \/ request.backend.response.valid < RequestedCount(request)

\* C19: when the grounded tier fails, the supplier returns exactly count
\* questions, all of them from the next tier and none from the failed
\* response.
C19_FallbackOnTierFailure ==
    (gen.kind = "response" /\ TierFailed(gen)) =>
        /\ Len(gen.questions) = RequestedCount(gen)
        /\ \A i \in 1..Len(gen.questions) : gen.questions[i] \notin GeneratedTags


BankOf(request) ==
    IF request.service = "adaptive"
    THEN AdaptiveBank(request.topic, request.lesson)
    ELSE RagBank(request.topic, request.lesson)

\* the tags of the questions of a response
Tags(request) == {request.questions[i] : i \in 1..Len(request.questions)}

\* C21: a result of the static tier for a (topic, lesson) whose bank has at
\* least one entry holds bank entries and their duplicates only; a
\* placeholder is returned only when the bank has no entry at all.
C21_PlaceholderOnlyWithoutBank ==
    gen.kind = "response" =>
        /\ ("placeholder" \in Tags(gen) => BankOf(gen) = 0)
        /\ (BankOf(gen) >= 1 /\ Tags(gen) \cap GeneratedTags = {}) =>
               Tags(gen) \subseteq {"bank", "dup"}


\* the first tier that succeeds for a request: grounded generation when it
\* yields at least count valid questions, else the static bank when it has
\* an entry, else placeholder synthesis
FirstTier(request) ==
    IF request.backend.llm /\ ~TierFailed(request) THEN GeneratedTags
    ELSE IF BankOf(request) >= 1 THEN {"bank", "dup"}
    ELSE {"placeholder"}

\* C22: the questions of a response all come from the first tier, in the
\* order grounded generation, static bank, placeholder synthesis, that
\* succeeds for the request.
C22_FirstTierWins ==
    gen.kind = "response" => Tags(gen) \subseteq FirstTier(gen)


\* C23: a difficulty tag that was chosen is advanced for an average score
\* of 90 or more, beginner for an average below 65 and intermediate in
\* between.
C23_DifficultyThresholds ==
    (gen.kind = "tagged" /\ gen.difficulty # "None") =>
        gen.difficulty = (IF gen.average_score >= 90 THEN "advanced"
                          ELSE IF gen.average_score < 65 THEN "beginner"
                          ELSE "intermediate")


\* C24: whatever statement of the recording fails, a step commits a lesson
\* turned completed together with the aggregates recomputed in the same
\* transaction (count, mean and position), or none of them: the user row
\* changes only with such a lesson, and then to the recomputed values.
C24_AllOrNothing ==
    [][LET turned == {k \in DOMAIN lesson_progress :
                         /\ ~lesson_progress[k].is_completed
                         /\ lesson_progress'[k].is_completed}
       IN  /\ DOMAIN lesson_progress' = DOMAIN lesson_progress =>
                 /\ \A k \in turned :
                        users' = _update_user_total_progress(
                                     QueryView(lesson_progress, lesson_progress'),
                                     users, k[1])
                 /\ (turned = {} => users' = users)]_vars


\* C25: in every state the total_score of a user with a completed lesson
\* is the mean of best_score over the user's completed lessons.
C25_TotalScoreIsMean ==
    \A u \in Users :
        CompletedKeys(lesson_progress, u) # {} =>
            users[u].total_score =
                AvgBestScore(lesson_progress, CompletedKeys(lesson_progress, u))


\* the first <<topic, lesson>> in curriculum order without a completed row,
\* the final lesson of the curriculum when there is none
RECURSIVE FirstNotCompleted(_, _, _, _)
FirstNotCompleted(lp, u, ti, l) ==
    IF ti > Len(TOPIC_ORDER)
    THEN [topic |-> TOPIC_ORDER[Len(TOPIC_ORDER)],
          lesson |-> LEARNING_STRUCTURE[TOPIC_ORDER[Len(TOPIC_ORDER)]]]
    ELSE IF l > LEARNING_STRUCTURE[TOPIC_ORDER[ti]]
    THEN FirstNotCompleted(lp, u, ti + 1, 1)
    ELSE IF <<u, TOPIC_ORDER[ti], l>> \in CompletedKeys(lp, u)
    THEN FirstNotCompleted(lp, u, ti, l + 1)
    ELSE [topic |-> TOPIC_ORDER[ti], lesson |-> l]

\* C26: a step that completes a lesson leaves the user's current_topic and
\* current_lesson at the first lesson in curriculum order that has no
\* completed row after the step.
C26_PositionAfterCompletion ==
    [][\A k \in DOMAIN lesson_progress \cap DOMAIN lesson_progress' :
          (~lesson_progress[k].is_completed /\ lesson_progress'[k].is_completed) =>
              LET position == FirstNotCompleted(lesson_progress', k[1], 1, 1) IN
              /\ users'[k[1]].current_topic = position.topic
              /\ users'[k[1]].current_lesson = position.lesson]_vars


\* C27: however often an answer is delivered, a session holds at most one
\* answer for each question, the correct count of the quiz in progress does
\* not exceed the number of questions and no score exceeds 100.
C27_OneAnswerPerQuestion ==
    /\ \A sid \in DOMAIN quiz_sessions :
          LET answers == quiz_sessions[sid].answers IN
          /\ \A i, j \in 1..Len(answers) :
                 answers[i].question_index = answers[j].question_index => i = j
          /\ FracLE(quiz_sessions[sid].score, FracOfInt(100))
    /\ \A u \in Users :
          user_data[u].quiz_session_id \in DOMAIN quiz_sessions =>
              user_data[u].quiz_correct_count <=
                  Len(quiz_sessions[user_data[u].quiz_session_id].questions)


\* C28: an answer whose index is not one of the options of the question is
\* refused with an error, and the sessions and the correct count of the
\* user stay as they are.
C28_OutOfRangeRejected ==
    [][\A u \in Users, a \in DeliveredIndexes :
          (HandleQuizAnswer(u, a) /\ a \notin 0..(NumOptions - 1)) =>
              /\ reply' = ErrorReply("handle_quiz_answer", u)
              /\ UNCHANGED <<quiz_sessions, user_data>>]_vars


\* C29: every question a supplier returns has exactly four options and a
\* correct_answer among them: no question of a response is a generated one
\* that was accepted without these.
C29_QuestionsValid ==
    gen.kind = "response" => "llm_loose" \notin Tags(gen)


\* the rows on which a step records an attempt
Attempted ==
    {k \in DOMAIN lesson_progress \cap DOMAIN lesson_progress' :
        lesson_progress'[k].attempts = lesson_progress[k].attempts + 1}

\* C30: the step of an attempt that turns a lesson completed recomputes the
\* count of completed lessons from the rows its transaction reads, and the
\* step of any other attempt (failed, or a retake of a completed lesson)
\* leaves total_lessons_completed, current_topic and current_lesson alone.
C30_RecomputeOnFirstCompletion ==
    [][\A k \in Attempted :
          LET u == k[1] IN
          IF ~lesson_progress[k].is_completed /\ lesson_progress'[k].is_completed
          THEN users'[u].total_lessons_completed =
                   Cardinality(CompletedKeys(
                       QueryView(lesson_progress, lesson_progress'), u))
          ELSE /\ users'[u].total_lessons_completed = users[u].total_lessons_completed
               /\ users'[u].current_topic = users[u].current_topic
               /\ users'[u].current_lesson = users[u].current_lesson]_vars


\* stored answers of a session with is_correct = true
CorrectStored(session) ==
    Cardinality({i \in 1..Len(session.answers) : session.answers[i].is_correct})

\* the step is a delivery of the "next question" button to user u
NextDelivered(u) ==
    /\ reply'.user = u
    /\ reply'.handler \in {"handle_next_question", "show_quiz_result"}
    /\ (reply' # reply \/ stray' # stray)

\* C31: when "next" is delivered for a user whose only incomplete session
\* stands at its last question, the session is completed with the score
\* computed from its stored answers and the length of its question list,
\* whatever the memory of the process holds
C31_ScoreFromDurableState ==
    [][\A u \in Users : \A sid \in ActiveSessionIds(quiz_sessions, u) :
          (/\ NextDelivered(u)
           /\ ActiveSessionIds(quiz_sessions, u) = {sid}
           /\ quiz_sessions[sid].current_question + 1 >= Len(quiz_sessions[sid].questions))
          => /\ sid \in DOMAIN quiz_sessions'
             /\ quiz_sessions'[sid].is_completed
             /\ quiz_sessions'[sid].score =
                    QuizScore(CorrectStored(quiz_sessions[sid]),
                              Len(quiz_sessions[sid].questions))]_vars


\* the row is the session that the start_quiz of this step has created
CreatedNow(sid) ==
    /\ reply'.handler = "start_quiz"
    /\ quiz_sessions'[sid].answers = <<>>
    /\ ~quiz_sessions'[sid].is_completed
    /\ (sid \notin DOMAIN quiz_sessions \/ quiz_sessions'[sid] # quiz_sessions[sid])

\* C32: a session starts with current_question 0; in every later step the
\* index stays or grows by one and remains below the number of questions;
\* a session is completed only from its last question
C32_IndexStepsByOne ==
    [][/\ \A sid \in DOMAIN quiz_sessions' :
            LET after == quiz_sessions'[sid] IN
            IF CreatedNow(sid)
            THEN after.current_question = 0
            ELSE /\ sid \in DOMAIN quiz_sessions
                 /\ after.current_question - quiz_sessions[sid].current_question \in {0, 1}
                 /\ after.current_question < Len(after.questions)
       /\ \A sid \in CompletedNow :
            quiz_sessions[sid].current_question = Len(quiz_sessions[sid].questions) - 1]_vars

\* a quiz of five questions has been completed from its fifth question
C32_Witness ==
    \E sid \in DOMAIN quiz_sessions :
        /\ quiz_sessions[sid].is_completed
        /\ Len(quiz_sessions[sid].questions) = 5
        /\ quiz_sessions[sid].current_question = 4
        /\ Len(quiz_sessions[sid].answers) = 5


AttemptsOf(lp, k) == IF k \in DOMAIN lp THEN lp[k].attempts ELSE 0

\* C34: a step that completes a quiz session leaves a LessonProgress row for
\* the lesson of the session, with one attempt more than before the step
\* (one attempt when there was no row)
C34_CompletionAddsAttempt ==
    [][\A sid \in CompletedNow :
          LET k == SessionKey(quiz_sessions[sid]) IN
          /\ k \in DOMAIN lesson_progress'
          /\ lesson_progress'[k].attempts = AttemptsOf(lesson_progress, k) + 1]_vars


\* C35: right after start_quiz has created a session, the lookup of the
\* user's active session returns that session and nothing else, and its
\* first question is shown
C35_CreatedIsActive ==
    [][\A sid \in DOMAIN quiz_sessions' :
          CreatedNow(sid) =>
              /\ GetActive(quiz_sessions', quiz_sessions'[sid].user_id) = {sid}
              /\ reply'.kind = "question"
              /\ reply'.session = sid]_vars


\* the lessons the keyboard policy reports as unlocked for the stored rows
Unlocked(lp, us, u, t) ==
    _get_available_lessons(t, get_user_progress_summary(lp, us, u))

\* C36: a session is created, and a lesson becomes completed, only for a
\* lesson the unlock policy reports as unlocked for the rows stored before
\* the step; the completed lessons of a topic are the lessons 1..k
C36_OnlyUnlockedLessons ==
    [][/\ \A sid \in DOMAIN quiz_sessions' :
            CreatedNow(sid) =>
                quiz_sessions'[sid].lesson_id \in
                    Unlocked(lesson_progress, users, quiz_sessions'[sid].user_id,
                             quiz_sessions'[sid].topic_id)
       /\ \A u \in Users :
            \A k \in CompletedKeys(lesson_progress', u) \ CompletedKeys(lesson_progress, u) :
                k[3] \in Unlocked(lesson_progress, users, u, k[2])
       /\ \A k \in DOMAIN lesson_progress' :
            lesson_progress'[k].is_completed =>
                \A j \in 1..(k[3] - 1) : <<k[1], k[2], j>> \in CompletedKeys(lesson_progress', k[1])]_vars


\* the step is confirm_reset_progress of user u
ResetDelivered(u) ==
    /\ reply'.kind = "reset"
    /\ reply'.user = u
    /\ DOMAIN lesson_progress' \subseteq DOMAIN lesson_progress

\* the step is a delivery of an answer button to user u
AnswerDeliveredTo(u) ==
    /\ reply'.user = u
    /\ reply'.handler = "handle_quiz_answer"
    /\ (reply' # reply \/ stray' # stray)

DataOf(lp, qs, us, v) ==
    [rows |-> Restrict(lp, {k \in DOMAIN lp : k[1] = v}),
     sessions |-> Restrict(qs, AnySessionIds(qs, v)),
     aggregates |-> us[v]]

Untouched(v) ==
    DataOf(lesson_progress', quiz_sessions', users', v) =
        DataOf(lesson_progress, quiz_sessions, users, v)

\* C38: every step changes the stored data of at most one learner, and a
\* step whose handler has replied to learner u leaves the rows, sessions
\* and aggregates of every other learner as they were
C38_OtherLearnersUntouched ==
    [][/\ \E u \in Learners : \A v \in Learners \ {u} : Untouched(v)
       /\ reply' # reply => \A v \in Learners \ {reply'.user} : Untouched(v)]_vars

\* one learner has reset the progress while the other keeps a completed
\* lesson and the completed session of its quiz
C38_Witness ==
    \E u \in Learners, v \in Learners :
        /\ u # v
        /\ reply = ResetReply(u)
        /\ user_data[u].quiz_session_id # None
        /\ AnySessionIds(quiz_sessions, u) = {}
        /\ <<v, TOPIC_ORDER[1], 1>> \in CompletedKeys(lesson_progress, v)
        /\ \E sid \in AnySessionIds(quiz_sessions, v) : quiz_sessions[sid].is_completed

====
